---- MODULE Spec2Model ----
(***************************************************************************)
(* Race of two address providers under one deadline (src/main.go).         *)
(*                                                                         *)
(* main launches one fetchAddress goroutine per provider, each with its    *)
(* own pair of unbuffered channels (result, error), and waits in a single  *)
(* select on the four channels and on ctx.Done().                          *)
(*                                                                         *)
(* Time is discrete.  The steps of the goroutines take no time against the *)
(* provider latencies and the deadline: the clock advances only when no    *)
(* goroutine and no timer can take a step.  Within one instant every       *)
(* interleaving of the enabled steps is explored.                          *)
(***************************************************************************)
EXTENDS Integers, FiniteSets, Sequences, TLC

\* Latest instant at which a provider answers the request (headers).
MaxLat == 4
\* Longest extra time a provider takes to deliver the body.
MaxLag == 1
\* context.WithTimeout(..., 1*time.Second), in clock ticks.
Deadline == 3

TimeCap == MaxLat + MaxLag

\* The two fetch units, in launch order.
Units == <<"BrasilAPI", "ViaCEP">>
UnitSet == {Units[i] : i \in 1..Len(Units)}

None == [kind |-> "None"]

\* What a provider does with the request: answer with a body that decodes
\* ("ok"), fail at the network level ("neterr"), answer with a body that does
\* not decode ("decerr"), or never answer ("hang").
Plans ==
    [kind : {"ok", "decerr"}, lat : 0..MaxLat, lag : 0..MaxLag]
    \cup [kind : {"neterr"}, lat : 0..MaxLat, lag : {0}]
    \cup [kind : {"hang"}, lat : {0}, lag : {0}]

VARIABLES
    keyOK,    \* whether the URL built from the key parses (NewRequestWithContext succeeds)
    plan,     \* plan[u]: the behaviour of u's provider
    now,      \* the clock
    ctx,      \* "active", or ctx.Err(): "deadline" | "canceled"
    mainPC,   \* position of main
    pc,       \* pc[u]: position of u's goroutine
    msg,      \* msg[u]: the value u is sending or has sent
    outcome,  \* what the select printed, None before
    proc,     \* "running" | "exited" | "crashed"
    order,    \* the units in the order in which main starts them
    goal,     \* the outcome a run is steered to, AnyOutcome when it is not steered
    call,     \* the arguments and the HTTP exchange of one fetchAddress call
    sent      \* what that call sends on its channels, None before

vars == <<keyOK, plan, now, ctx, mainPC, pc, msg, outcome, proc, order, goal, call, sent>>

\* What the steps of the race leave alone.
aux == <<order, goal, call, sent>>

AnyOutcome == [kind |-> "Any"]
NoCall == [kind |-> "NoCall"]

Other(u) == CHOOSE v \in UnitSet : v # u

\* The instant at which u's fetch has its report ready when nothing aborts it.
ReadyAt(u) ==
    IF plan[u].kind = "neterr" THEN plan[u].lat ELSE plan[u].lat + plan[u].lag

Sending(u) == pc[u] \in {"sendRes", "sendErr"}
InFlight(u) == pc[u] \in {"do", "decode"}

\* The Address u builds from a decoded response, and the errors.
AddressOf(u) == [type |-> "addr", from |-> u]
Err(e) == [type |-> "err", err |-> e]

Success(u, m) == [kind |-> "Success", by |-> u, val |-> m]
Failure(u, m) == [kind |-> "Failure", by |-> u, val |-> m]
Timeout == [kind |-> "Timeout"]

\* A select whose cases print the label of the other provider.
CaseOfSwapped(u, m) ==
    IF m.type = "addr" THEN Success(Other(u), m) ELSE Failure(Other(u), m)

\* The case of the select that receives m from u's channels.
CaseOf(u, m) == IF m.type = "addr" THEN Success(u, m) ELSE Failure(u, m)

\* A cancel that is called at once instead of deferred.
CtxAtStartCanceled == "canceled"

\* ctx, cancel := context.WithTimeout(...); defer cancel()
CtxAtStart == "active"

InitRace ==
    /\ keyOK \in BOOLEAN
    /\ plan \in [UnitSet -> Plans]
    /\ now = 0
    /\ ctx = CtxAtStart
    /\ mainPC = "go1"
    /\ pc = [u \in UnitSet |-> "idle"]
    /\ msg = [u \in UnitSet |-> None]
    /\ outcome = None
    /\ proc = "running"

\* The program as it is: BrasilAPI is started first, then ViaCEP.
Init ==
    /\ InitRace
    /\ order = Units
    /\ goal = AnyOutcome
    /\ call = NoCall
    /\ sent = None

\* go fetchAddress(...): the goroutines are started one after the other.
Launch(i) ==
    /\ proc = "running"
    /\ mainPC = IF i = 1 THEN "go1" ELSE "go2"
    /\ pc' = [pc EXCEPT ![order[i]] = "start"]
    /\ mainPC' = IF i = 1 THEN "go2" ELSE "select"
    /\ UNCHANGED <<keyOK, plan, now, ctx, msg, outcome, proc>>
    /\ UNCHANGED aux

\* A select that lacks the cases of the first unit.
SelectCasesLastOnly == {Units[Len(Units)]}

\* A select with the cases of the unit started first only.
SelectCasesFirstStarted == {order[1]}

\* The units whose result and error channels the select receives from.
SelectCases == UnitSet

\* A select without the case <-ctx.Done().
ListensDoneNever == FALSE

\* Whether the select has the case <-ctx.Done().
ListensDone == TRUE

\* A select inside a loop: main comes back to it after a case has run.
AfterSelectLoop == "select"

\* main's position after a case of the select has run.
AfterSelect == "resolved"

\* The cases of the select that can proceed now: a unit blocked in a send on
\* one of its channels, or the closed ctx.Done().
ReadyCases ==
    {CaseOf(u, msg[u]) : u \in {v \in SelectCases : Sending(v)}}
    \cup (IF ListensDone /\ ctx # "active" THEN {Timeout} ELSE {})

\* The select runs case c: the value is received (its sender's send returns,
\* and with it fetchAddress) and the message is printed.
Resolve(c) ==
    /\ outcome' = c
    /\ mainPC' = AfterSelect
    /\ pc' = IF c.kind = "Timeout" THEN pc ELSE [pc EXCEPT ![c.by] = "returned"]

\* main reaches the select: one of the ready cases is chosen, any of them;
\* with none ready main blocks on all five channels.
Select ==
    /\ proc = "running"
    /\ mainPC = "select"
    /\ IF ReadyCases = {}
         THEN /\ mainPC' = "parked"
              /\ UNCHANGED <<pc, outcome>>
         ELSE \E c \in ReadyCases : Resolve(c)
    /\ UNCHANGED <<keyOK, plan, now, ctx, msg, proc>>
    /\ UNCHANGED aux

\* u executes a send of m on its result channel (m an Address) or on its
\* error channel.  The channels are unbuffered: with main blocked in the
\* select the value is handed over and the select resolves in the same step;
\* otherwise u blocks in the send until a receiver comes.
Send(u, m) ==
    /\ msg' = [msg EXCEPT ![u] = m]
    /\ IF mainPC = "parked" /\ u \in SelectCases
         THEN /\ outcome' = CaseOf(u, m)
              /\ mainPC' = AfterSelect
              /\ pc' = [pc EXCEPT ![u] = "returned"]
         ELSE /\ pc' = [pc EXCEPT ![u] = IF m.type = "addr" THEN "sendRes" ELSE "sendErr"]
              /\ UNCHANGED <<mainPC, outcome>>

\* A fetch that returns on an error without sending it.
FailSilently(u, e) ==
    /\ msg' = [msg EXCEPT ![u] = Err(e)]
    /\ pc' = [pc EXCEPT ![u] = "returned"]
    /\ UNCHANGED <<mainPC, outcome>>

\* A fetch that sends the error and, the return missing, goes on to decode.
FailWithNoReturn(u, e) ==
    /\ msg' = [msg EXCEPT ![u] = Err(e)]
    /\ IF mainPC = "parked" /\ u \in SelectCases
         THEN /\ outcome' = Failure(u, Err(e))
              /\ mainPC' = AfterSelect
              /\ pc' = [pc EXCEPT ![u] = "decode"]
         ELSE /\ pc' = [pc EXCEPT ![u] = "sendErr"]
              /\ UNCHANGED <<mainPC, outcome>>

\* errChan <- err; return
FailWith(u, e) == Send(u, Err(e))

\* http.NewRequestWithContext, its error discarded, and the call of
\* client.Do.  With a URL that does not parse req is nil and client.Do(req)
\* dereferences it: the goroutine panics and the runtime ends the process.
\* With ctx already done client.Do returns ctx's error at once.
NewRequest(u) ==
    /\ proc = "running"
    /\ pc[u] = "start"
    /\ IF ~keyOK
         THEN /\ proc' = "crashed"
              /\ UNCHANGED <<pc, mainPC, msg, outcome>>
         ELSE /\ proc' = proc
              /\ IF ctx = "active"
                   THEN /\ pc' = [pc EXCEPT ![u] = "do"]
                        /\ UNCHANGED <<mainPC, msg, outcome>>
                   ELSE FailWith(u, ctx)
    /\ UNCHANGED <<keyOK, plan, now, ctx>>
    /\ UNCHANGED aux

\* client.Do returns: with an error, or with the response whose body is
\* decoded next.
DoReturns(u) ==
    /\ proc = "running"
    /\ pc[u] = "do"
    /\ plan[u].kind # "hang"
    /\ now >= plan[u].lat
    /\ IF plan[u].kind = "neterr"
         THEN FailWith(u, "transport")
         ELSE /\ pc' = [pc EXCEPT ![u] = "decode"]
              /\ UNCHANGED <<mainPC, msg, outcome>>
    /\ UNCHANGED <<keyOK, plan, now, ctx, proc>>
    /\ UNCHANGED aux

\* json.NewDecoder(resp.Body).Decode: an error, or the response mapped to an
\* Address and sent on the result channel.
Decode(u) ==
    /\ proc = "running"
    /\ pc[u] = "decode"
    /\ now >= plan[u].lat + plan[u].lag
    /\ IF plan[u].kind = "decerr"
         THEN FailWith(u, "decode")
         ELSE Send(u, AddressOf(u))
    /\ UNCHANGED <<keyOK, plan, now, ctx, proc>>
    /\ UNCHANGED aux

\* The request carries ctx: once ctx is done the pending client.Do, or the
\* pending read of the body, returns ctx's error.
Aborted(u) ==
    /\ proc = "running"
    /\ InFlight(u)
    /\ ctx # "active"
    /\ FailWith(u, ctx)
    /\ UNCHANGED <<keyOK, plan, now, ctx, proc>>
    /\ UNCHANGED aux

\* The timer of context.WithTimeout fires and closes ctx.Done().  Closing
\* wakes a main blocked in the select, which takes the Done case.
DeadlineExpires ==
    /\ proc = "running"
    /\ ctx = "active"
    /\ now >= Deadline
    /\ ctx' = "deadline"
    /\ IF mainPC = "parked" /\ ListensDone
         THEN /\ outcome' = Timeout
              /\ mainPC' = AfterSelect
         ELSE UNCHANGED <<mainPC, outcome>>
    /\ UNCHANGED <<keyOK, plan, now, pc, msg, proc>>
    /\ UNCHANGED aux

\* A main that never calls cancel.
CancelMissing == ctx

\* defer cancel(): run when main returns.
Cancel == IF ctx = "active" THEN "canceled" ELSE ctx

\* main returns: the deferred cancel runs.
Return ==
    /\ proc = "running"
    /\ mainPC = "resolved"
    /\ ctx' = Cancel
    /\ mainPC' = "returned"
    /\ UNCHANGED <<keyOK, plan, now, pc, msg, outcome, proc>>
    /\ UNCHANGED aux

\* The process exits once main has returned; the goroutines still alive end
\* with it, wherever they are.
Exit ==
    /\ proc = "running"
    /\ mainPC = "returned"
    /\ proc' = "exited"
    /\ UNCHANGED <<keyOK, plan, now, ctx, mainPC, pc, msg, outcome>>
    /\ UNCHANGED aux

\* A step of main, of a fetch unit or of the deadline timer.
Step ==
    \/ \E i \in 1..Len(Units) : Launch(i)
    \/ Select
    \/ \E u \in UnitSet : NewRequest(u)
    \/ \E u \in UnitSet : DoReturns(u)
    \/ \E u \in UnitSet : Decode(u)
    \/ \E u \in UnitSet : Aborted(u)
    \/ DeadlineExpires
    \/ Return
    \/ Exit

\* Time passes only when nothing can take a step.
Tick ==
    /\ proc = "running"
    /\ now < TimeCap
    /\ ~ENABLED Step
    /\ now' = now + 1
    /\ UNCHANGED <<keyOK, plan, ctx, mainPC, pc, msg, outcome, proc>>
    /\ UNCHANGED aux

Next ==
    \/ \E i \in 1..Len(Units) : Launch(i)
    \/ Select
    \/ \E u \in UnitSet : NewRequest(u)
    \/ \E u \in UnitSet : DoReturns(u)
    \/ \E u \in UnitSet : Decode(u)
    \/ \E u \in UnitSet : Aborted(u)
    \/ DeadlineExpires
    \/ Return
    \/ Exit
    \/ Tick

Spec == Init /\ [][Next]_vars

\* The scheduler runs every runnable goroutine, timers fire and time passes.
FairSpec == Spec /\ WF_vars(Next)

TypeOK ==
    /\ keyOK \in BOOLEAN
    /\ plan \in [UnitSet -> Plans]
    /\ now \in 0..TimeCap
    /\ ctx \in {"active", "deadline", "canceled"}
    /\ mainPC \in {"go1", "go2", "select", "parked", "resolved", "returned"}
    /\ pc \in [UnitSet -> {"idle", "start", "do", "decode", "sendRes", "sendErr", "returned"}]
    /\ proc \in {"running", "exited", "crashed"}

(***************************************************************************)
(* One call of fetchAddress as a function of the HTTP exchange it gets:    *)
(* what it sends on its channels.                                          *)
(***************************************************************************)

\* The JSON keys the response structs declare.
BrasilAPIFields == {"cep", "state", "city", "neighborhood", "street", "service"}
ViaCEPFields ==
    {"cep", "logradouro", "complemento", "bairro", "localidade", "uf",
     "ibge", "gia", "ddd", "siafi"}

\* The keys a body may hold; "erro" is one that neither struct declares.
Keys == BrasilAPIFields \cup ViaCEPFields \cup {"erro"}

\* What a JSON object holds at a key: a string, or nothing (the key is
\* absent), null, or a value that is not a string (a number, a boolean).
Absent == "<absent>"
Null == "<null>"
NotAString == "<not a string>"
Values == {Absent, Null, NotAString, "", "X"}

\* A body: text that is not JSON, JSON that is no object, or an object.
Malformed == [form |-> "malformed"]
NotAnObject == [form |-> "array"]
Object(o) == [form |-> "object", at |-> o]

\* The object holding every key, each with its own name as value, and the
\* empty object; the bodies are these with up to two keys changed.
FullObject == [k \in Keys |-> k]
EmptyObject == [k \in Keys |-> Absent]
Changed(o) ==
    {[k \in Keys |-> IF k = k1 THEN v1 ELSE IF k = k2 THEN v2 ELSE o[k]] :
        k1 \in Keys, k2 \in Keys, v1 \in Values, v2 \in Values}
Bodies ==
    {Malformed, NotAnObject}
    \cup {Object(o) : o \in Changed(FullObject) \cup Changed(EmptyObject)}

\* What client.Do gives: an error, or a response with a status and a body.
Exchanges ==
    {[netErr |-> TRUE, status |-> 0, body |-> Malformed]}
    \cup [netErr : {FALSE}, status : {200, 404, 500}, body : Bodies]

\* json.NewDecoder(body).Decode(&v), v a struct of string fields: an error
\* when the text is not JSON, is no object, or holds a non-string at a
\* declared key; else each field is the string at its key, "" when the key
\* is absent or null.  Keys the struct does not declare are skipped.
DecodeJSON(fields, body) ==
    IF body.form # "object" \/ \E f \in fields : body.at[f] = NotAString
    THEN [ok |-> FALSE]
    ELSE [ok |-> TRUE,
          val |-> [f \in fields |->
                     IF body.at[f] \in {Absent, Null} THEN "" ELSE body.at[f]]]

Address(cep, logradouro, bairro, localidade, uf) ==
    [type |-> "addr", Cep |-> cep, Logradouro |-> logradouro,
     Bairro |-> bairro, Localidade |-> localidade, Uf |-> uf]

\* A mapping that takes the street from the neighborhood and back.
MapBrasilAPISwapped(r) == Address(r.cep, r.neighborhood, r.street, r.city, r.state)

\* Map BrasilAPIResponse to the Address struct.
MapBrasilAPI(r) == Address(r.cep, r.street, r.neighborhood, r.city, r.state)

\* Map ViaCEPResponse to the Address struct.
MapViaCEP(r) == Address(r.cep, r.logradouro, r.bairro, r.localidade, r.uf)

\* A fetch that reports a response whose status is not 200 as an error.
FetchAddressChecksStatus(x, isBrasilAPI) ==
    IF x.netErr THEN Err("transport")
    ELSE IF x.status # 200 THEN Err("status")
    ELSE LET d == DecodeJSON(IF isBrasilAPI THEN BrasilAPIFields ELSE ViaCEPFields, x.body)
         IN  IF ~d.ok THEN Err("decode")
             ELSE IF isBrasilAPI THEN MapBrasilAPI(d.val) ELSE MapViaCEP(d.val)

\* fetchAddress on the exchange x: the error of client.Do, or the error of
\* the decoding, or the Address mapped from the decoded response.
FetchAddress(x, isBrasilAPI) ==
    IF x.netErr THEN Err("transport")
    ELSE LET d == DecodeJSON(IF isBrasilAPI THEN BrasilAPIFields ELSE ViaCEPFields, x.body)
         IN  IF ~d.ok THEN Err("decode")
             ELSE IF isBrasilAPI THEN MapBrasilAPI(d.val) ELSE MapViaCEP(d.val)

\* One call, the race left aside: the main goroutine has started nothing.
InitMap ==
    /\ keyOK = TRUE
    /\ plan = [u \in UnitSet |-> [kind |-> "hang", lat |-> 0, lag |-> 0]]
    /\ now = 0
    /\ ctx = CtxAtStart
    /\ mainPC = "go1"
    /\ pc = [u \in UnitSet |-> "idle"]
    /\ msg = [u \in UnitSet |-> None]
    /\ outcome = None
    /\ proc = "running"
    /\ order = Units
    /\ goal = AnyOutcome
    /\ call \in [isBrasilAPI : BOOLEAN, x : Exchanges]
    /\ sent = None

\* The call runs to its send.
Fetch ==
    /\ call # NoCall
    /\ sent = None
    /\ sent' = FetchAddress(call.x, call.isBrasilAPI)
    /\ UNCHANGED <<keyOK, plan, now, ctx, mainPC, pc, msg, outcome, proc, order, goal, call>>

SpecMap == InitMap /\ [][Fetch]_vars

\* The string a decoded field gets from the object o at key k.
StringAt(o, k) == IF o[k] \in {Absent, Null} THEN "" ELSE o[k]

\* C13: a decoded response maps field by field to the Address.  BrasilAPI:
\* cep -> Cep, street -> Logradouro, neighborhood -> Bairro, city ->
\* Localidade, state -> Uf; ViaCEP: cep -> Cep, logradouro -> Logradouro,
\* bairro -> Bairro, localidade -> Localidade, uf -> Uf.  The Address holds
\* nothing else: no other key of the body has a part in it.
C13_FieldMapping ==
    (sent # None /\ sent.type = "addr") =>
        LET o == call.x.body.at
        IN  IF call.isBrasilAPI
            THEN sent = [type |-> "addr",
                         Cep |-> StringAt(o, "cep"),
                         Logradouro |-> StringAt(o, "street"),
                         Bairro |-> StringAt(o, "neighborhood"),
                         Localidade |-> StringAt(o, "city"),
                         Uf |-> StringAt(o, "state")]
            ELSE sent = [type |-> "addr",
                         Cep |-> StringAt(o, "cep"),
                         Logradouro |-> StringAt(o, "logradouro"),
                         Bairro |-> StringAt(o, "bairro"),
                         Localidade |-> StringAt(o, "localidade"),
                         Uf |-> StringAt(o, "uf")]

\* C13 witness: a BrasilAPI body with known values, and with ViaCEP's keys
\* present too, mapped to the Address of its own five fields.
C13_Witness ==
    /\ call # NoCall
    /\ call.isBrasilAPI
    /\ ~call.x.netErr
    /\ call.x.body = Object([FullObject EXCEPT !["street"] = "X", !["service"] = Absent])
    /\ sent = Address("cep", "X", "neighborhood", "city", "state")

\* C14: a fetch sends an error exactly when the network call fails or the
\* body does not decode: the error of the call, or the error of the decoding
\* and then no Address.  A response that comes and decodes is a success
\* whatever its status; with none of the five keys in the body the Address
\* is blank.
C14_ErrorIffFails ==
    sent # None =>
        LET x == call.x
            fields == IF call.isBrasilAPI THEN BrasilAPIFields ELSE ViaCEPFields
            used == IF call.isBrasilAPI
                    THEN {"cep", "street", "neighborhood", "city", "state"}
                    ELSE {"cep", "logradouro", "bairro", "localidade", "uf"}
            fails == x.body.form # "object" \/ \E f \in fields : x.body.at[f] = NotAString
        IN  /\ (sent.type = "err") <=> (x.netErr \/ fails)
            /\ x.netErr => sent = Err("transport")
            /\ (~x.netErr /\ fails) => sent = Err("decode")
            /\ (~x.netErr /\ ~fails /\ \A k \in used : x.body.at[k] \in {Absent, Null, ""})
                  => sent = Address("", "", "", "", "")

\* C14 witness: a 404 whose body is an object without any of the keys of
\* the schema is sent as a blank Address.
C14_Witness ==
    /\ call # NoCall
    /\ ~call.x.netErr
    /\ call.x.status = 404
    /\ call.x.body = Object([EmptyObject EXCEPT !["erro"] = NotAString])
    /\ sent = Address("", "", "", "", "")

Resolved == outcome # None

\* The units whose send has been received.
Received == {u \in UnitSet : pc[u] = "returned"}

\* Both latencies exceed the deadline: neither fetch has a report ready by then.
BothTooSlow ==
    \A u \in UnitSet : plan[u].kind = "hang" \/ ReadyAt(u) > Deadline

\* u's fetch, left alone, gets and decodes a response before the deadline.
WouldSucceed(u) == plan[u].kind = "ok" /\ ReadyAt(u) < Deadline

\* u's fetch, left alone, fails before the deadline.
WouldFail(u) == plan[u].kind \in {"neterr", "decerr"} /\ ReadyAt(u) < Deadline

\* C1: a race resolves at most once.  The select consumes exactly one of the
\* five events: at most one unit's send is ever received, it is the one the
\* outcome names, none is received on Timeout; and once the race is resolved
\* its outcome never changes, whatever the units do afterwards.
C1_OneConsumed ==
    /\ Cardinality(Received) <= 1
    /\ (outcome.kind \in {"None", "Timeout"}) => Received = {}
    /\ (outcome.kind \in {"Success", "Failure"}) => Received = {outcome.by}
C1_ResolvesOnce ==
    /\ []C1_OneConsumed
    /\ [][Resolved => outcome' = outcome]_vars

\* C1 witness: both units had their report ready at the same instant, one
\* was chosen and the other is left in its send after the resolution.
C1_Witness ==
    /\ outcome.kind \in {"Success", "Failure"}
    /\ Sending(Other(outcome.by))
    /\ ReadyAt(outcome.by) = ReadyAt(Other(outcome.by))
    /\ proc = "exited"

\* C2: every race invocation eventually reaches a Resolved state.
C2_EventuallyResolved == <>Resolved

\* C3: if at least one adapter's fetch would succeed before the deadline, the
\* race resolves to Success, not to Timeout and not to a sibling's Failure.
C3_SuccessWins ==
    (Resolved /\ \E u \in UnitSet : WouldSucceed(u)) => outcome.kind = "Success"

\* C4: if both latencies exceed the deadline the race resolves to Timeout,
\* never to Success and never to the Failure of an aborted unit.
C4_TooSlowIsTimeout ==
    (Resolved /\ BothTooSlow) => outcome = Timeout

\* C4 witness: the race resolved with both providers too slow, and a unit
\* aborted by the expired context is sending the context's error.
C4_Witness ==
    /\ Resolved
    /\ BothTooSlow
    /\ \E u \in UnitSet : pc[u] = "sendErr" /\ msg[u] = Err("deadline")

\* C5: if both adapters fail before the deadline the race resolves to
\* Failure and never to Timeout.
C5_BothFailIsFailure ==
    (Resolved /\ \A u \in UnitSet : WouldFail(u)) => outcome.kind = "Failure"

\* C5 witness: both adapters failed before the deadline, one with a
\* transport error and one with a decode error, and the race resolved.
C5_Witness ==
    /\ Resolved
    /\ \A u \in UnitSet : WouldFail(u)
    /\ {plan[u].kind : u \in UnitSet} = {"neterr", "decerr"}
    /\ \A u \in UnitSet : msg[u] # None

\* u's goroutine is running its fetch: it has not reached its send.
Running(u) == proc = "running" /\ pc[u] \in {"start", "do", "decode"}

\* C6: once the race has resolved, the coordinator cancels the shared
\* context and every unit leaves Running: it has reported, or its network
\* operation is aborted, or it ends with the process.
C6_UnitsCancelled ==
    Resolved ~> (ctx # "active" /\ \A u \in UnitSet : ~Running(u))

\* C6 witness: the race resolved through a unit's report and the sibling's
\* pending network operation was aborted by the coordinator's cancel.
C6_Witness ==
    /\ outcome.kind \in {"Success", "Failure"}
    /\ ctx = "canceled"
    /\ msg[Other(outcome.by)] = Err("canceled")
    /\ plan[Other(outcome.by)].kind = "hang"

\* C7: a unit that reports after the race has resolved has its report
\* dropped: its send does not block forever, the unit returns.
C7_LateReportDropped ==
    \A u \in UnitSet : (Resolved /\ Sending(u)) ~> (pc[u] = "returned")

\* a has its report ready strictly before b and before the deadline.
First(a, b) ==
    /\ plan[a].kind # "hang"
    /\ ReadyAt(a) < Deadline
    /\ plan[b].kind = "hang" \/ ReadyAt(a) < ReadyAt(b)

\* What a reports when nothing aborts its fetch.
ReportOf(a) ==
    CASE plan[a].kind = "ok" -> AddressOf(a)
      [] plan[a].kind = "neterr" -> Err("transport")
      [] plan[a].kind = "decerr" -> Err("decode")

C9_NeverCrashes ==
    /\ proc # "crashed"
    /\ proc = "exited" => Resolved

C12_SendState ==
    \A u \in UnitSet :
        /\ (msg[u] = None) <=> (pc[u] \in {"idle", "start", "do", "decode"})
        /\ pc[u] = "sendRes" => msg[u].type = "addr"
        /\ pc[u] = "sendErr" => msg[u].type = "err"
C12_OneSend ==
    /\ []C12_SendState
    /\ [][\A u \in UnitSet :
            msg[u] # None => (msg'[u] = msg[u] /\ pc'[u] \in {pc[u], "returned"})]_vars

\* C12 witness: the process has ended, one unit's error was received and
\* the other unit is left with its one Address in its send.
C12_Witness ==
    /\ proc = "exited"
    /\ \E u \in UnitSet :
        /\ pc[u] = "returned"
        /\ msg[u].type = "err"
        /\ pc[Other(u)] = "sendRes"

\* C15: the outcome is attributed to the adapter that produced it.  A Success
\* or Failure labelled u carries exactly the value u sent, and u's send is the
\* one received; a Success labelled u is u's own Address, from a response
\* that u's provider gave and that decoded.
C15_Attributed ==
    outcome.kind \in {"Success", "Failure"} =>
        /\ outcome.val = msg[outcome.by]
        /\ pc[outcome.by] = "returned"
        /\ (outcome.kind = "Success") <=> (outcome.val.type = "addr")
        /\ outcome.kind = "Success" =>
              /\ outcome.val = AddressOf(outcome.by)
              /\ plan[outcome.by].kind = "ok"
              /\ now >= ReadyAt(outcome.by)

\* C15 witness: both units have sent, one an Address and one an error, and
\* the Success names the unit that sent the Address.
C15_Witness ==
    /\ outcome.kind = "Success"
    /\ msg[Other(outcome.by)] # None
    /\ msg[Other(outcome.by)].type = "err"

\* u still waits for its provider: the response, or its body, has not come.
Waiting(u) ==
    /\ proc = "running"
    /\ InFlight(u)
    /\ plan[u].kind = "hang" \/ now < ReadyAt(u)

IsAddr(m) == m # None /\ m.type = "addr"

\* C16: once the shared context is done, a unit still waiting for its
\* network call or its body never produces an Address from then on; and no
\* Success outcome is produced once the context is done.
C16_NoLateSuccess ==
    /\ \A u \in UnitSet :
          [](((ctx # "active") /\ Waiting(u)) => [](~IsAddr(msg[u])))
    /\ [][(outcome'.kind = "Success" /\ outcome.kind # "Success") => ctx = "active"]_vars

\* C16 witness: the deadline expired while a provider that would have
\* answered a good body later was still awaited; the unit sent the context's
\* error instead.
C16_Witness ==
    \E u \in UnitSet :
        /\ plan[u].kind = "ok"
        /\ ReadyAt(u) > Deadline
        /\ ctx = "deadline"
        /\ msg[u] = Err("deadline")

\* C17: the coordinator never cancels while the race is Pending.  The
\* context is canceled, and a unit aborted with the cancel's error, only
\* after the select has resolved; before, the context can only be done
\* through the expiry of the deadline.
C17_NoEarlyCancel ==
    /\ ctx = "canceled" => Resolved
    /\ \A u \in UnitSet : msg[u] = Err("canceled") => Resolved
    /\ (~Resolved /\ ctx # "active") => (ctx = "deadline" /\ now >= Deadline)

\* C17 witness: after the select resolved through one unit's report, the
\* deferred cancel aborted the other, still running, unit.
C17_Witness ==
    /\ outcome.kind \in {"Success", "Failure"}
    /\ ctx = "canceled"
    /\ now < Deadline
    /\ msg[Other(outcome.by)] = Err("canceled")


(***************************************************************************)
(* The race with the two go statements in either order.                    *)
(***************************************************************************)

\* The units in the opposite order.
Reversed(seq) == [i \in 1..Len(seq) |-> seq[Len(seq) + 1 - i]]

\* Everything the select can print.
Outcomes ==
    {Timeout}
    \cup UNION {{CaseOf(u, m) : m \in {AddressOf(u), Err("transport"), Err("decode"),
                                        Err("deadline"), Err("canceled")}} :
                  u \in UnitSet}

\* The program, and the program with the go statements exchanged; a run is
\* free, or steered to one outcome.
InitOrder ==
    /\ InitRace
    /\ order \in {Units, Reversed(Units)}
    /\ goal \in {AnyOutcome} \cup Outcomes
    /\ call = NoCall
    /\ sent = None

\* A steered run takes no step that resolves the race otherwise.
GoalAllows == goal = AnyOutcome \/ outcome' = None \/ outcome' = goal

\* The steps of Next, each under the steering.
StepOrder ==
    \/ (\E i \in 1..Len(Units) : Launch(i)) /\ GoalAllows
    \/ Select /\ GoalAllows
    \/ (\E u \in UnitSet : NewRequest(u)) /\ GoalAllows
    \/ (\E u \in UnitSet : DoReturns(u)) /\ GoalAllows
    \/ (\E u \in UnitSet : Decode(u)) /\ GoalAllows
    \/ (\E u \in UnitSet : Aborted(u)) /\ GoalAllows
    \/ DeadlineExpires /\ GoalAllows
    \/ Return /\ GoalAllows
    \/ Exit /\ GoalAllows
    \/ Tick /\ GoalAllows

SpecOrder == InitOrder /\ [][StepOrder]_vars /\ WF_vars(StepOrder)

\* What the provider behaviours allow as outcome, said without the order:
\* the report of a unit that is ready by the deadline and not after the
\* other one, and Timeout when no unit is ready before the deadline.  A key
\* that does not parse ends the process before any outcome.
Possible ==
    IF ~keyOK THEN {}
    ELSE {CaseOf(u, ReportOf(u)) :
            u \in {v \in UnitSet :
                     /\ plan[v].kind # "hang"
                     /\ ReadyAt(v) <= Deadline
                     /\ plan[Other(v)].kind = "hang" \/ ReadyAt(v) <= ReadyAt(Other(v))}}
         \cup (IF \A u \in UnitSet : plan[u].kind = "hang" \/ ReadyAt(u) >= Deadline
                 THEN {Timeout} ELSE {})

\* C11: the order of the adapters has no effect on the winner.  Whatever the
\* providers do and in whichever order the units are started, a race only
\* resolves with an outcome of the set Possible, which does not mention the
\* order, and every outcome of that set can be the one of the race: a run
\* steered to it reaches it.  So the set of outcomes is the same in both
\* orders; with both units ready in the same instant it holds both reports.
C11_OrderFree ==
    /\ [](Resolved => outcome \in Possible)
    /\ (goal \in Possible) => <>(outcome = goal)

\* C11 witness: the units started in the opposite order, both answers ready
\* in the same instant, and the select takes the report of the unit started
\* last while the other one is blocked in its send.
C11_Witness ==
    /\ order = Reversed(Units)
    /\ goal # AnyOutcome
    /\ \A u \in UnitSet : plan[u].kind = "ok" /\ ReadyAt(u) = 0
    /\ outcome = Success(order[2], AddressOf(order[2]))
    /\ pc[order[1]] = "sendRes"

====
